---------------------------- MODULE Spec2Model ----------------------------
(***************************************************************************)
(* Selective checks of the Airflow CI (airflow_breeze.utils.selective_     *)
(* checks): a SelectiveChecks object is built from the changed files, the  *)
(* default branch, the commit reference, the pull-request labels and the   *)
(* GitHub event, and its cached properties decide what the CI run does.    *)
(*                                                                         *)
(* The state is the object's five fields, the cached_property values in    *)
(* its __dict__ and the lru_cache of _matching_files.  One action per      *)
(* property reads that property on the object.                             *)
(*                                                                         *)
(* Text is modelled by what re.match needs: a path and a regular           *)
(* expression are tuples of one-character strings.                         *)
(***************************************************************************)
EXTENDS Naturals, Sequences, FiniteSets, TLC

(***************************************************************************)
(* Bounds of the model.                                                    *)
(***************************************************************************)
\* longest changed-file tuple the object is constructed with
MaxFiles == 2
\* number of property reads made on an object
MaxReads == 1
\* number of property reads made on an object whose reads are repeated
MemoReads == 2
\* entries of each supported-version list of global_constants
NumVersions == 2

(***************************************************************************)
(* Regular expressions, as re.match applies them: the pattern is tried at  *)
(* the start of the path only and need not consume the whole path.         *)
(***************************************************************************)
Quantifiers == {"*", "+", "?"}

\* index of the "]" closing the class opened before position i
RECURSIVE ClassEnd(_, _)
ClassEnd(p, i) == IF p[i] = "]" THEN i ELSE ClassEnd(p, i + 1)

\* the atom of pattern p at position i: its kind, its characters, and the
\* position after it
Atom(p, i) ==
  CASE p[i] = "^"  -> [k |-> "bol", neg |-> FALSE, cs |-> {}, n |-> i + 1]
    [] p[i] = "$"  -> [k |-> "eol", neg |-> FALSE, cs |-> {}, n |-> i + 1]
    [] p[i] = "\\" -> [k |-> "set", neg |-> FALSE, cs |-> {p[i + 1]}, n |-> i + 2]
    [] p[i] = "."  -> [k |-> "set", neg |-> TRUE, cs |-> {}, n |-> i + 1]
    [] p[i] = "["  ->
         LET e == ClassEnd(p, i + 1)
             neg == p[i + 1] = "^"
             from == IF neg THEN i + 2 ELSE i + 1
         IN [k |-> "set", neg |-> neg, cs |-> {p[x] : x \in from..(e - 1)}, n |-> e + 1]
    [] OTHER       -> [k |-> "set", neg |-> FALSE, cs |-> {p[i]}, n |-> i + 1]

\* the pattern from position i on, as a sequence of quantified atoms
RECURSIVE ParseRegex(_, _)
ParseRegex(p, i) ==
  IF i > Len(p) THEN <<>>
  ELSE LET a == Atom(p, i)
           quantified == a.k = "set" /\ a.n <= Len(p) /\ p[a.n] \in Quantifiers
           q == IF quantified THEN p[a.n] ELSE "1"
           n == IF quantified THEN a.n + 1 ELSE a.n
       IN <<[k |-> a.k, neg |-> a.neg, cs |-> a.cs, q |-> q]>> \o ParseRegex(p, n)

\* character c is one the atom t accepts
Accepts(t, c) == IF t.neg THEN c \notin t.cs ELSE c \in t.cs

\* atoms i.. of ts match the path s from position j on
RECURSIVE MatchAt(_, _, _, _)
MatchAt(ts, i, s, j) ==
  IF i > Len(ts) THEN TRUE
  ELSE LET t == ts[i]
           here == j <= Len(s) /\ Accepts(t, s[j])
       IN CASE t.k = "bol" -> j = 1 /\ MatchAt(ts, i + 1, s, j)
            [] t.k = "eol" -> j = Len(s) + 1 /\ MatchAt(ts, i + 1, s, j)
            [] t.q = "1"   -> here /\ MatchAt(ts, i + 1, s, j + 1)
            [] t.q = "?"   -> (here /\ MatchAt(ts, i + 1, s, j + 1)) \/ MatchAt(ts, i + 1, s, j)
            [] t.q = "*"   -> (here /\ MatchAt(ts, i, s, j + 1)) \/ MatchAt(ts, i + 1, s, j)
            [] OTHER       -> here /\ (MatchAt(ts, i, s, j + 1) \/ MatchAt(ts, i + 1, s, j + 1))

\* re.match(regexp, file) is not None
match(regexp, file) == MatchAt(ParseRegex(regexp, 1), 1, file, 1)

(***************************************************************************)
(* The pattern tables.                                                     *)
(***************************************************************************)
CI_FILE_GROUP_MATCHES ==
  [
    ENVIRONMENT_FILES |-> <<
      \* ^.github/workflows
      <<"^",".","g","i","t","h","u","b","/","w","o","r","k","f","l","o","w","s">>,
      \* ^dev/breeze
      <<"^","d","e","v","/","b","r","e","e","z","e">>,
      \* ^Dockerfile
      <<"^","D","o","c","k","e","r","f","i","l","e">>,
      \* ^scripts
      <<"^","s","c","r","i","p","t","s">>,
      \* ^setup.py
      <<"^","s","e","t","u","p",".","p","y">>,
      \* ^setup.cfg
      <<"^","s","e","t","u","p",".","c","f","g">>
    >>,
    PYTHON_PRODUCTION_FILES |-> <<
      \* ^airflow/.*\.py
      <<"^","a","i","r","f","l","o","w","/",".","*","\\",".","p","y">>,
      \* ^setup.py
      <<"^","s","e","t","u","p",".","p","y">>
    >>,
    JAVASCRIPT_PRODUCTION_FILES |-> <<
      \* ^airflow/.*\.[jt]sx?
      <<"^","a","i","r","f","l","o","w","/",".","*","\\",".","[","j","t","]","s","x","?">>,
      \* ^airflow/.*\.lock
      <<"^","a","i","r","f","l","o","w","/",".","*","\\",".","l","o","c","k">>
    >>,
    API_TEST_FILES |-> <<
      \* ^airflow/api
      <<"^","a","i","r","f","l","o","w","/","a","p","i">>
    >>,
    API_CODEGEN_FILES |-> <<
      \* ^airflow/api_connexion/openapi/v1.yaml
      <<"^","a","i","r","f","l","o","w","/","a","p","i","_","c","o","n","n","e","x","i","o","n","/","o","p","e","n","a","p","i","/","v","1",".","y","a","m","l">>,
      \* ^clients/gen
      <<"^","c","l","i","e","n","t","s","/","g","e","n">>
    >>,
    HELM_FILES |-> <<
      \* ^chart
      <<"^","c","h","a","r","t">>
    >>,
    SETUP_FILES |-> <<
      \* ^pyproject.toml
      <<"^","p","y","p","r","o","j","e","c","t",".","t","o","m","l">>,
      \* ^setup.cfg
      <<"^","s","e","t","u","p",".","c","f","g">>,
      \* ^setup.py
      <<"^","s","e","t","u","p",".","p","y">>
    >>,
    DOC_FILES |-> <<
      \* ^docs
      <<"^","d","o","c","s">>,
      \* ^airflow/.*\.py$
      <<"^","a","i","r","f","l","o","w","/",".","*","\\",".","p","y","$">>,
      \* ^chart
      <<"^","c","h","a","r","t">>,
      \* ^providers
      <<"^","p","r","o","v","i","d","e","r","s">>,
      \* ^CHANGELOG\.txt
      <<"^","C","H","A","N","G","E","L","O","G","\\",".","t","x","t">>,
      \* ^airflow/config_templates/config\.yml
      <<"^","a","i","r","f","l","o","w","/","c","o","n","f","i","g","_","t","e","m","p","l","a","t","e","s","/","c","o","n","f","i","g","\\",".","y","m","l">>,
      \* ^chart/RELEASE_NOTES\.txt
      <<"^","c","h","a","r","t","/","R","E","L","E","A","S","E","_","N","O","T","E","S","\\",".","t","x","t">>,
      \* ^chart/values\.schema\.json
      <<"^","c","h","a","r","t","/","v","a","l","u","e","s","\\",".","s","c","h","e","m","a","\\",".","j","s","o","n">>,
      \* ^chart/values\.json
      <<"^","c","h","a","r","t","/","v","a","l","u","e","s","\\",".","j","s","o","n">>
    >>,
    UI_FILES |-> <<
      \* ^airflow/ui/.*\.[tj]sx?$
      <<"^","a","i","r","f","l","o","w","/","u","i","/",".","*","\\",".","[","t","j","]","s","x","?","$">>,
      \* ^airflow/ui/[^/]+\.json$
      <<"^","a","i","r","f","l","o","w","/","u","i","/","[","^","/","]","+","\\",".","j","s","o","n","$">>,
      \* ^airflow/ui/.*\.lock$
      <<"^","a","i","r","f","l","o","w","/","u","i","/",".","*","\\",".","l","o","c","k","$">>
    >>,
    WWW_FILES |-> <<
      \* ^airflow/www/.*\.js[x]?$
      <<"^","a","i","r","f","l","o","w","/","w","w","w","/",".","*","\\",".","j","s","[","x","]","?","$">>,
      \* ^airflow/www/[^/]+\.json$
      <<"^","a","i","r","f","l","o","w","/","w","w","w","/","[","^","/","]","+","\\",".","j","s","o","n","$">>,
      \* ^airflow/www/.*\.lock$
      <<"^","a","i","r","f","l","o","w","/","w","w","w","/",".","*","\\",".","l","o","c","k","$">>
    >>,
    KUBERNETES_FILES |-> <<
      \* ^chart
      <<"^","c","h","a","r","t">>,
      \* ^kubernetes_tests
      <<"^","k","u","b","e","r","n","e","t","e","s","_","t","e","s","t","s">>,
      \* ^airflow/providers/cncf/kubernetes/
      <<"^","a","i","r","f","l","o","w","/","p","r","o","v","i","d","e","r","s","/","c","n","c","f","/","k","u","b","e","r","n","e","t","e","s","/">>,
      \* ^tests/providers/cncf/kubernetes/
      <<"^","t","e","s","t","s","/","p","r","o","v","i","d","e","r","s","/","c","n","c","f","/","k","u","b","e","r","n","e","t","e","s","/">>
    >>,
    ALL_PYTHON_FILES |-> <<
      \* \.py$
      <<"\\",".","p","y","$">>
    >>,
    ALL_SOURCE_FILES |-> <<
      \* ^.pre-commit-config.yaml$
      <<"^",".","p","r","e","-","c","o","m","m","i","t","-","c","o","n","f","i","g",".","y","a","m","l","$">>,
      \* ^airflow
      <<"^","a","i","r","f","l","o","w">>,
      \* ^chart
      <<"^","c","h","a","r","t">>,
      \* ^tests
      <<"^","t","e","s","t","s">>,
      \* ^kubernetes_tests
      <<"^","k","u","b","e","r","n","e","t","e","s","_","t","e","s","t","s">>
    >>
  ]

TEST_TYPE_MATCHES ==
  [
    API |-> <<
      \* ^airflow/api
      <<"^","a","i","r","f","l","o","w","/","a","p","i">>,
      \* ^airflow/api_connexion
      <<"^","a","i","r","f","l","o","w","/","a","p","i","_","c","o","n","n","e","x","i","o","n">>,
      \* ^tests/api
      <<"^","t","e","s","t","s","/","a","p","i">>,
      \* ^tests/api_connexion
      <<"^","t","e","s","t","s","/","a","p","i","_","c","o","n","n","e","x","i","o","n">>
    >>,
    CLI |-> <<
      \* ^airflow/cli
      <<"^","a","i","r","f","l","o","w","/","c","l","i">>,
      \* ^tests/cli
      <<"^","t","e","s","t","s","/","c","l","i">>
    >>,
    PROVIDERS |-> <<
      \* ^airflow/providers/
      <<"^","a","i","r","f","l","o","w","/","p","r","o","v","i","d","e","r","s","/">>,
      \* ^tests/providers/
      <<"^","t","e","s","t","s","/","p","r","o","v","i","d","e","r","s","/">>
    >>,
    WWW |-> <<
      \* ^airflow/www
      <<"^","a","i","r","f","l","o","w","/","w","w","w">>,
      \* ^tests/www
      <<"^","t","e","s","t","s","/","w","w","w">>,
      \* ^airflow/ui
      <<"^","a","i","r","f","l","o","w","/","u","i">>
    >>
  ]

\* the paths changed files are drawn from, in path order
ChangedPathList ==
  <<".github/workflows/ci.yml",
    "airflow/api/foo.py",
    "airflow/models/dag.py",
    "airflow/providers/cncf/kubernetes/pod.py",
    "airflow/www/app.js",
    "chart/values.json",
    "docs/README.md">>

\* each path as the tuple of its characters
PathOf ==
     ".github/workflows/ci.yml" :> <<".","g","i","t","h","u","b","/","w","o","r","k","f","l","o","w","s","/","c","i",".","y","m","l">>
  @@ "airflow/api/foo.py" :> <<"a","i","r","f","l","o","w","/","a","p","i","/","f","o","o",".","p","y">>
  @@ "airflow/models/dag.py" :> <<"a","i","r","f","l","o","w","/","m","o","d","e","l","s","/","d","a","g",".","p","y">>
  @@ "airflow/providers/cncf/kubernetes/pod.py" :> <<"a","i","r","f","l","o","w","/","p","r","o","v","i","d","e","r","s","/","c","n","c","f","/","k","u","b","e","r","n","e","t","e","s","/","p","o","d",".","p","y">>
  @@ "airflow/www/app.js" :> <<"a","i","r","f","l","o","w","/","w","w","w","/","a","p","p",".","j","s">>
  @@ "chart/values.json" :> <<"c","h","a","r","t","/","v","a","l","u","e","s",".","j","s","o","n">>
  @@ "docs/README.md" :> <<"d","o","c","s","/","R","E","A","D","M","E",".","m","d">>

\* a group's patterns in a table (match_dict[match_group])
Table(match_dict) ==
  IF match_dict = "CI_FILE_GROUP_MATCHES" THEN CI_FILE_GROUP_MATCHES ELSE TEST_TYPE_MATCHES

FileGroupForCi == DOMAIN CI_FILE_GROUP_MATCHES

\* the (table, group) pairs _matching_files is called with
MatchKeys ==
  {<<"CI_FILE_GROUP_MATCHES", g>> : g \in DOMAIN CI_FILE_GROUP_MATCHES}
    \cup {<<"TEST_TYPE_MATCHES", g>> : g \in DOMAIN TEST_TYPE_MATCHES}

ChangedPaths == DOMAIN PathOf

\* any(match(regexp, file) for regexp in regexps): the inner loop of
\* _match_files_with_regexps, which stops at the first pattern that matches
MatchesAny(regexps, file) == \E i \in 1..Len(regexps) : match(regexps[i], PathOf[file])

\* for every table and group, the paths its patterns match
Matched ==
  [key \in MatchKeys |-> {f \in ChangedPaths : MatchesAny(Table(key[1])[key[2]], f)}]

(***************************************************************************)
(* airflow_breeze.global_constants.                                        *)
(***************************************************************************)
Versions(of) == [i \in 1..NumVersions |-> <<of, i>>]

CURRENT_PYTHON_MAJOR_MINOR_VERSIONS == Versions("python")
ALL_PYTHON_MAJOR_MINOR_VERSIONS == Versions("python") \o <<<<"python", NumVersions + 1>>>>
CURRENT_POSTGRES_VERSIONS == Versions("postgres")
CURRENT_MYSQL_VERSIONS == Versions("mysql")
CURRENT_MSSQL_VERSIONS == Versions("mssql")
CURRENT_KUBERNETES_VERSIONS == Versions("kubernetes")
CURRENT_KIND_VERSIONS == Versions("kind")
CURRENT_HELM_VERSIONS == Versions("helm")
DEFAULT_PYTHON_MAJOR_MINOR_VERSION == CURRENT_PYTHON_MAJOR_MINOR_VERSIONS[1]
DEFAULT_POSTGRES_VERSION == CURRENT_POSTGRES_VERSIONS[1]
DEFAULT_MYSQL_VERSION == CURRENT_MYSQL_VERSIONS[1]
DEFAULT_MSSQL_VERSION == CURRENT_MSSQL_VERSIONS[1]
DEFAULT_KUBERNETES_VERSION == CURRENT_KUBERNETES_VERSIONS[1]
DEFAULT_KIND_VERSION == CURRENT_KIND_VERSIONS[1]
DEFAULT_HELM_VERSION == CURRENT_HELM_VERSIONS[1]

GithubEvents == {"pull_request", "push", "schedule"}

\* the value of each SelectiveUnitTestTypes member a table is keyed by
SelectiveUnitTestTypes ==
  [API |-> "API", CLI |-> "CLI", PROVIDERS |-> "Providers", WWW |-> "WWW"]

\* all_selective_test_types(): the values of SelectiveUnitTestTypes, sorted
all_selective_test_types ==
  <<"API", "Always", "CLI", "Core", "Integration", "Other", "Providers", "WWW">>

\* the code points of the test-type names, which Python's sorted compares
CodePoints ==
     "API" :> <<65, 80, 73>>
  @@ "Always" :> <<65, 108, 119, 97, 121, 115>>
  @@ "CLI" :> <<67, 76, 73>>
  @@ "Core" :> <<67, 111, 114, 101>>
  @@ "Integration" :> <<73, 110, 116, 101, 103, 114, 97, 116, 105, 111, 110>>
  @@ "Other" :> <<79, 116, 104, 101, 114>>
  @@ "Providers" :> <<80, 114, 111, 118, 105, 100, 101, 114, 115>>
  @@ "WWW" :> <<87, 87, 87>>

FULL_TESTS_NEEDED_LABEL == "full tests needed"

(***************************************************************************)
(* Python's built-ins, as the properties use them.                         *)
(***************************************************************************)
\* a < b for str: the first differing code point decides, a proper prefix
\* is smaller
RECURSIVE CodesLess(_, _)
CodesLess(a, b) ==
  IF b = <<>> THEN FALSE
  ELSE IF a = <<>> THEN TRUE
  ELSE IF Head(a) # Head(b) THEN Head(a) < Head(b)
  ELSE CodesLess(Tail(a), Tail(b))

StrLess(a, b) == CodesLess(CodePoints[a], CodePoints[b])

\* sorted(xs) for a list xs of str: the least item first (the first of equal
\* ones), then the rest sorted
RECURSIVE sorted(_)
sorted(xs) ==
  IF xs = <<>> THEN <<>>
  ELSE LET at == CHOOSE i \in 1..Len(xs) :
                   /\ \A j \in 1..Len(xs) : ~StrLess(xs[j], xs[i])
                   /\ \A j \in 1..(i - 1) : StrLess(xs[i], xs[j])
       IN <<xs[at]>> \o sorted(SubSeq(xs, 1, at - 1) \o SubSeq(xs, at + 1, Len(xs)))

\* the items of a list, as set(xs) holds them
set(xs) == {xs[i] : i \in 1..Len(xs)}

\* the items of a set in the order iteration gives them, which sorted does
\* not depend on
RECURSIVE list(_)
list(s) ==
  IF s = {} THEN <<>>
  ELSE LET x == CHOOSE y \in s : TRUE IN <<x>> \o list(s \ {x})

\* " ".join(xs)
RECURSIVE join(_)
join(xs) ==
  IF xs = <<>> THEN ""
  ELSE IF Len(xs) = 1 THEN xs[1]
  ELSE xs[1] \o " " \o join(Tail(xs))

\* xs.remove(x): xs without the first item equal to x
remove(xs, x) ==
  LET at == CHOOSE i \in 1..Len(xs) : xs[i] = x /\ \A j \in 1..(i - 1) : xs[j] # x
  IN SubSeq(xs, 1, at - 1) \o SubSeq(xs, at + 1, Len(xs))

(***************************************************************************)
(* The SelectiveChecks object.                                             *)
(***************************************************************************)
VARIABLES
  _files,           \* tuple of changed paths
  _default_branch,  \* str
  _commit_ref,      \* <<>> for None, <<s>> for the str s
  _pr_labels,       \* tuple of str
  _github_event,    \* a GithubEvents member
  cache,            \* the cached_property values: <<>> until computed, then <<value>>
  lru,              \* the lru_cache of _matching_files: <<>> or <<matched files>>
  computations,     \* how often the body of _matching_files ran, per key
  returned,         \* the last property read and what it returned
  first,            \* what the first read of each property returned
  reads             \* number of property reads so far

context == <<_files, _default_branch, _commit_ref, _pr_labels, _github_event>>
vars == <<context, cache, lru, computations, returned, first, reads>>

\* the cached properties
Properties ==
  { "_full_tests_needed", "python_versions", "all_python_versions",
    "postgres_versions", "mysql_versions", "mssql_versions", "kind_versions",
    "helm_versions", "kubernetes_versions", "_run_everything",
    "needs_python_scans", "needs_javascript_scans", "needs_api_tests",
    "needs_api_codegen", "run_ui_tests", "run_www_tests", "run_kubernetes_tests",
    "docs_build", "needs_helm_tests", "run_tests", "image_build", "test_types",
    "basic_checks_only", "upgrade_to_newer_dependencies" }

\* what an evaluation hands back: the caches after it, and its value
Ret(st, val) == [st |-> st, val |-> val]

\* an evaluation's result handed to what follows it
Then(got, Rest(_)) == Rest(got)

\* @cached_property: the value stored for name, or else the getter's
\* result got, which is then stored
cached_property(st, name, got) ==
  IF st.cache[name] # <<>> THEN Ret(st, st.cache[name][1])
  ELSE Ret([got.st EXCEPT !.cache[name] = <<got.val>>], got.val)

\* the outer loop of _match_files_with_regexps: the files some pattern
\* of the group matches, in the order of self._files
_match_files_with_regexps(key) == SelectSeq(_files, LAMBDA file : file \in Matched[key])

\* _matching_files with the lru_cache left off: the files are matched on
\* every call
_matching_files_uncached(st, match_group, match_dict) ==
  Then(_match_files_with_regexps(<<match_dict, match_group>>), LAMBDA matched_files :
    Ret([st EXCEPT !.lru[<<match_dict, match_group>>] = <<matched_files>>,
                   !.computations[<<match_dict, match_group>>] = @ + 1],
        matched_files))

\* @lru_cache around the body of _matching_files, keyed by
\* (self, match_group, match_dict)
_matching_files(st, match_group, match_dict) ==
  IF st.lru[<<match_dict, match_group>>] # <<>>
  THEN Ret(st, st.lru[<<match_dict, match_group>>][1])
  ELSE Then(_match_files_with_regexps(<<match_dict, match_group>>), LAMBDA matched_files :
         Ret([st EXCEPT !.lru[<<match_dict, match_group>>] = <<matched_files>>,
                        !.computations[<<match_dict, match_group>>] = @ + 1],
             matched_files))

\* _full_tests_needed with schedule left out of the events
_full_tests_needed_push_only(st) ==
  cached_property(st, "_full_tests_needed",
    IF _github_event \in {"push"} THEN Ret(st, TRUE)
    ELSE IF FULL_TESTS_NEEDED_LABEL \in set(_pr_labels) THEN Ret(st, TRUE)
    ELSE Ret(st, FALSE))

_full_tests_needed(st) ==
  cached_property(st, "_full_tests_needed",
    IF _github_event \in {"push", "schedule"} THEN Ret(st, TRUE)
    ELSE IF FULL_TESTS_NEEDED_LABEL \in set(_pr_labels) THEN Ret(st, TRUE)
    ELSE Ret(st, FALSE))

python_versions(st) ==
  cached_property(st, "python_versions",
    Then(_full_tests_needed(st), LAMBDA full :
      Ret(full.st, IF full.val THEN CURRENT_PYTHON_MAJOR_MINOR_VERSIONS
                   ELSE <<DEFAULT_PYTHON_MAJOR_MINOR_VERSION>>)))

postgres_versions(st) ==
  cached_property(st, "postgres_versions",
    Then(_full_tests_needed(st), LAMBDA full :
      Ret(full.st, IF full.val THEN CURRENT_POSTGRES_VERSIONS
                   ELSE <<DEFAULT_POSTGRES_VERSION>>)))

mysql_versions(st) ==
  cached_property(st, "mysql_versions",
    Then(_full_tests_needed(st), LAMBDA full :
      Ret(full.st, IF full.val THEN CURRENT_MYSQL_VERSIONS ELSE <<DEFAULT_MYSQL_VERSION>>)))

mssql_versions(st) ==
  cached_property(st, "mssql_versions",
    Then(_full_tests_needed(st), LAMBDA full :
      Ret(full.st, IF full.val THEN CURRENT_MSSQL_VERSIONS ELSE <<DEFAULT_MSSQL_VERSION>>)))

kind_versions(st) == cached_property(st, "kind_versions", Ret(st, CURRENT_KIND_VERSIONS))

helm_versions(st) == cached_property(st, "helm_versions", Ret(st, CURRENT_HELM_VERSIONS))

\* kubernetes_versions written like kind_versions, without the condition
kubernetes_versions_unconditional(st) ==
  cached_property(st, "kubernetes_versions", Ret(st, CURRENT_KUBERNETES_VERSIONS))

kubernetes_versions(st) ==
  cached_property(st, "kubernetes_versions",
    Then(_full_tests_needed(st), LAMBDA full :
      Ret(full.st, IF full.val THEN CURRENT_KUBERNETES_VERSIONS
                   ELSE <<DEFAULT_KUBERNETES_VERSION>>)))

\* self._commit_ref is None, which the empty str is not
CommitIsNone == _commit_ref = <<>>

\* not self._commit_ref: None and the empty str are falsy
CommitMissing == _commit_ref = <<>> \/ _commit_ref = <<"">>

\* _run_everything without the look at the environment files
_run_everything_without_environment(st) ==
  cached_property(st, "_run_everything",
    IF CommitMissing THEN Ret(st, TRUE)
    ELSE Then(_full_tests_needed(st), LAMBDA full :
           IF full.val THEN Ret(full.st, TRUE) ELSE Ret(full.st, FALSE)))

_run_everything(st) ==
  cached_property(st, "_run_everything",
    IF CommitMissing THEN Ret(st, TRUE)
    ELSE Then(_full_tests_needed(st), LAMBDA full :
           IF full.val THEN Ret(full.st, TRUE)
           ELSE Then(_matching_files(full.st, "ENVIRONMENT_FILES", "CI_FILE_GROUP_MATCHES"),
                     LAMBDA env :
                       IF Len(env.val) > 0 THEN Ret(env.st, TRUE) ELSE Ret(env.st, FALSE))))

\* a or b evaluates b only when a is false
all_python_versions(st) ==
  cached_property(st, "all_python_versions",
    Then(_run_everything(st), LAMBDA everything :
      IF everything.val THEN Ret(everything.st, ALL_PYTHON_MAJOR_MINOR_VERSIONS)
      ELSE Then(_full_tests_needed(everything.st), LAMBDA full :
             Ret(full.st, IF full.val THEN ALL_PYTHON_MAJOR_MINOR_VERSIONS
                          ELSE <<DEFAULT_PYTHON_MAJOR_MINOR_VERSION>>))))

\* _should_be_run with len(matched_files) >= 0 for > 0
_should_be_run_on_no_match(st, source_area) ==
  Then(_run_everything(st), LAMBDA everything :
    IF everything.val THEN Ret(everything.st, TRUE)
    ELSE Then(_matching_files(everything.st, source_area, "CI_FILE_GROUP_MATCHES"),
              LAMBDA matched_files :
                IF Len(matched_files.val) >= 0 THEN Ret(matched_files.st, TRUE)
                ELSE Ret(matched_files.st, FALSE)))

_should_be_run(st, source_area) ==
  Then(_run_everything(st), LAMBDA everything :
    IF everything.val THEN Ret(everything.st, TRUE)
    ELSE Then(_matching_files(everything.st, source_area, "CI_FILE_GROUP_MATCHES"),
              LAMBDA matched_files :
                IF Len(matched_files.val) > 0 THEN Ret(matched_files.st, TRUE)
                ELSE Ret(matched_files.st, FALSE)))

needs_python_scans(st) ==
  cached_property(st, "needs_python_scans", _should_be_run(st, "PYTHON_PRODUCTION_FILES"))

needs_javascript_scans(st) ==
  cached_property(st, "needs_javascript_scans",
    _should_be_run(st, "JAVASCRIPT_PRODUCTION_FILES"))

needs_api_tests(st) ==
  cached_property(st, "needs_api_tests", _should_be_run(st, "API_TEST_FILES"))

needs_api_codegen(st) ==
  cached_property(st, "needs_api_codegen", _should_be_run(st, "API_CODEGEN_FILES"))

run_ui_tests(st) == cached_property(st, "run_ui_tests", _should_be_run(st, "UI_FILES"))

run_www_tests(st) == cached_property(st, "run_www_tests", _should_be_run(st, "WWW_FILES"))

run_kubernetes_tests(st) ==
  cached_property(st, "run_kubernetes_tests", _should_be_run(st, "KUBERNETES_FILES"))

docs_build(st) == cached_property(st, "docs_build", _should_be_run(st, "DOC_FILES"))

needs_helm_tests(st) ==
  cached_property(st, "needs_helm_tests",
    Then(_should_be_run(st, "HELM_FILES"), LAMBDA helm :
      Ret(helm.st, helm.val /\ _default_branch = "main")))

run_tests(st) == cached_property(st, "run_tests", _should_be_run(st, "ALL_SOURCE_FILES"))

\* image_build without docs_build
image_build_without_docs(st) ==
  cached_property(st, "image_build",
    Then(run_tests(st), LAMBDA tests :
      IF tests.val THEN Ret(tests.st, TRUE)
      ELSE run_kubernetes_tests(tests.st)))

\* a or b or c evaluates b only when a is false, c only when both are
image_build(st) ==
  cached_property(st, "image_build",
    Then(run_tests(st), LAMBDA tests :
      IF tests.val THEN Ret(tests.st, TRUE)
      ELSE Then(docs_build(tests.st), LAMBDA docs :
             IF docs.val THEN Ret(docs.st, TRUE)
             ELSE run_kubernetes_tests(docs.st))))

\* the matched files, and test_types with the type added when it matched
_select_test_type_if_matching(st, test_types, test_type) ==
  Then(_matching_files(st, test_type, "TEST_TYPE_MATCHES"), LAMBDA matched_files :
    [st |-> matched_files.st,
     val |-> matched_files.val,
     test_types |-> IF Len(matched_files.val) > 0
                    THEN test_types \cup {SelectiveUnitTestTypes[test_type]}
                    ELSE test_types])

\* the tail of _get_test_types_to_run with the Kubernetes files left in
\* remaining_files
CandidateTestTypes_keeping_kubernetes(candidate_test_types, matched_files, kubernetes_files, all_source_files) ==
  LET remaining_files == set(all_source_files) \ matched_files
  IN IF Cardinality(remaining_files) > 0
     THEN candidate_test_types \cup set(all_selective_test_types)
     ELSE candidate_test_types

\* the tail of _get_test_types_to_run, from remaining_files on
CandidateTestTypes(candidate_test_types, matched_files, kubernetes_files, all_source_files) ==
  LET remaining_files == (set(all_source_files) \ matched_files) \ set(kubernetes_files)
  IN IF Cardinality(remaining_files) > 0
     THEN candidate_test_types \cup set(all_selective_test_types)
     ELSE candidate_test_types

\* _get_test_types_to_run starting from an empty candidate set
_get_test_types_to_run_without_always(st) ==
  Then(_select_test_type_if_matching(st, {}, "WWW"), LAMBDA www :
  Then(_select_test_type_if_matching(www.st, www.test_types, "PROVIDERS"), LAMBDA providers :
  Then(_select_test_type_if_matching(providers.st, providers.test_types, "CLI"), LAMBDA cli :
  Then(_select_test_type_if_matching(cli.st, cli.test_types, "API"), LAMBDA api :
  Then(_matching_files(api.st, "KUBERNETES_FILES", "CI_FILE_GROUP_MATCHES"),
       LAMBDA kubernetes_files :
  Then(_matching_files(kubernetes_files.st, "ALL_SOURCE_FILES", "CI_FILE_GROUP_MATCHES"),
       LAMBDA all_source_files :
    Ret(all_source_files.st,
        sorted(list(CandidateTestTypes(
          api.test_types,
          set(www.val) \cup set(providers.val) \cup set(cli.val) \cup set(api.val),
          kubernetes_files.val,
          all_source_files.val))))))))))

_get_test_types_to_run(st) ==
  Then(_select_test_type_if_matching(st, {"Always"}, "WWW"), LAMBDA www :
  Then(_select_test_type_if_matching(www.st, www.test_types, "PROVIDERS"), LAMBDA providers :
  Then(_select_test_type_if_matching(providers.st, providers.test_types, "CLI"), LAMBDA cli :
  Then(_select_test_type_if_matching(cli.st, cli.test_types, "API"), LAMBDA api :
  Then(_matching_files(api.st, "KUBERNETES_FILES", "CI_FILE_GROUP_MATCHES"),
       LAMBDA kubernetes_files :
  Then(_matching_files(kubernetes_files.st, "ALL_SOURCE_FILES", "CI_FILE_GROUP_MATCHES"),
       LAMBDA all_source_files :
    Ret(all_source_files.st,
        sorted(list(CandidateTestTypes(
          api.test_types,
          set(www.val) \cup set(providers.val) \cup set(cli.val) \cup set(api.val),
          kubernetes_files.val,
          all_source_files.val))))))))))

\* the tail of test_types without the removal of Providers
JoinedTestTypes_keeping_providers(current_test_types) == join(sorted(current_test_types))

\* the tail of test_types: Providers removed off main, then sorted and joined
JoinedTestTypes(current_test_types) ==
  IF _default_branch # "main" /\ "Providers" \in set(current_test_types)
  THEN join(sorted(remove(current_test_types, "Providers")))
  ELSE join(sorted(current_test_types))

test_types(st) ==
  cached_property(st, "test_types",
    Then(run_tests(st), LAMBDA tests :
      IF ~tests.val THEN Ret(tests.st, "")
      ELSE Then(_run_everything(tests.st), LAMBDA everything :
             Then(IF everything.val THEN Ret(everything.st, all_selective_test_types)
                  ELSE _get_test_types_to_run(everything.st),
                  LAMBDA current_test_types :
                    Ret(current_test_types.st, JoinedTestTypes(current_test_types.val))))))

basic_checks_only(st) ==
  cached_property(st, "basic_checks_only",
    Then(image_build(st), LAMBDA image : Ret(image.st, ~image.val)))

\* a or b: the files are matched first, whatever the event
upgrade_to_newer_dependencies(st) ==
  cached_property(st, "upgrade_to_newer_dependencies",
    Then(_matching_files(st, "SETUP_FILES", "CI_FILE_GROUP_MATCHES"), LAMBDA setup :
      Ret(setup.st, Len(setup.val) > 0 \/ _github_event \in {"push", "schedule"})))

(***************************************************************************)
(* Construction and the property reads.                                    *)
(***************************************************************************)
\* the tuples of at most max of the listed paths, each path once, in the
\* order of the list
TuplesOf(paths, max) ==
  LET rising(t) == \A i \in 1..(Len(t) - 1) : t[i] < t[i + 1]
      picks == UNION {[1..k -> 1..Len(paths)] : k \in 0..max}
  IN {[i \in 1..Len(t) |-> paths[t[i]]] : t \in {p \in picks : rising(p)}}

Branches == {"main", "v2-3-test"}

CommitRefs == {<<>>, <<"">>, <<"abc">>}

LabelTuples == {<<"area:dev-tools">>, <<"area:dev-tools", FULL_TESTS_NEEDED_LABEL>>}

\* nothing is cached on a new object
Fresh ==
  /\ cache = [name \in Properties |-> <<>>]
  /\ lru = [key \in MatchKeys |-> <<>>]
  /\ computations = [key \in MatchKeys |-> 0]
  /\ returned = <<>>
  /\ first = [name \in Properties |-> <<>>]
  /\ reads = 0

\* __init__ stores its arguments
Init ==
  /\ _files \in TuplesOf(ChangedPathList, MaxFiles)
  /\ _default_branch \in Branches
  /\ _commit_ref \in CommitRefs
  /\ _pr_labels \in LabelTuples
  /\ _github_event \in GithubEvents
  /\ Fresh

\* the objects the repeated reads are made on: pull requests and pushes
\* that change some of three paths
InitMemo ==
  /\ _files \in TuplesOf(<<".github/workflows/ci.yml", "airflow/api/foo.py",
                           "airflow/models/dag.py">>, MaxFiles)
  /\ _default_branch \in Branches
  /\ _commit_ref \in {<<>>, <<"abc">>}
  /\ _pr_labels = <<"area:dev-tools">>
  /\ _github_event \in {"pull_request", "push"}
  /\ Fresh

\* the object's caches
self == [cache |-> cache, lru |-> lru, computations |-> computations]

\* one read of the property name on the object, got being its evaluation,
\* while fewer than limit reads were made
Read(name, got, limit) ==
  /\ reads < limit
  /\ cache' = got.st.cache
  /\ lru' = got.st.lru
  /\ computations' = got.st.computations
  /\ returned' = <<name, got.val>>
  /\ first' = IF first[name] = <<>> THEN [first EXCEPT ![name] = <<got.val>>] ELSE first
  /\ reads' = reads + 1
  /\ UNCHANGED context

\* a read of any public property
ReadAny(limit) ==
  \/ Read("python_versions", python_versions(self), limit)
  \/ Read("all_python_versions", all_python_versions(self), limit)
  \/ Read("postgres_versions", postgres_versions(self), limit)
  \/ Read("mysql_versions", mysql_versions(self), limit)
  \/ Read("mssql_versions", mssql_versions(self), limit)
  \/ Read("kind_versions", kind_versions(self), limit)
  \/ Read("helm_versions", helm_versions(self), limit)
  \/ Read("kubernetes_versions", kubernetes_versions(self), limit)
  \/ Read("needs_python_scans", needs_python_scans(self), limit)
  \/ Read("needs_javascript_scans", needs_javascript_scans(self), limit)
  \/ Read("needs_api_tests", needs_api_tests(self), limit)
  \/ Read("needs_api_codegen", needs_api_codegen(self), limit)
  \/ Read("run_ui_tests", run_ui_tests(self), limit)
  \/ Read("run_www_tests", run_www_tests(self), limit)
  \/ Read("run_kubernetes_tests", run_kubernetes_tests(self), limit)
  \/ Read("docs_build", docs_build(self), limit)
  \/ Read("needs_helm_tests", needs_helm_tests(self), limit)
  \/ Read("run_tests", run_tests(self), limit)
  \/ Read("image_build", image_build(self), limit)
  \/ Read("test_types", test_types(self), limit)
  \/ Read("basic_checks_only", basic_checks_only(self), limit)
  \/ Read("upgrade_to_newer_dependencies", upgrade_to_newer_dependencies(self), limit)

Next == ReadAny(MaxReads)

Spec == Init /\ [][Next]_vars

NextMemo == ReadAny(MemoReads)

SpecMemo == InitMemo /\ [][NextMemo]_vars


(***************************************************************************)
(* What the claims speak of.                                               *)
(***************************************************************************)
Cached(name) == cache[name] # <<>>

Value(name) == cache[name][1]

\* some changed file is matched by the group of the table
SomeFileIn(match_dict, match_group) ==
  \E i \in 1..Len(_files) : _files[i] \in Matched[<<match_dict, match_group>>]

\* the properties that are _should_be_run of one area, and the area
AreaOf ==
  [needs_python_scans |-> "PYTHON_PRODUCTION_FILES",
   needs_javascript_scans |-> "JAVASCRIPT_PRODUCTION_FILES",
   needs_api_tests |-> "API_TEST_FILES",
   needs_api_codegen |-> "API_CODEGEN_FILES",
   run_ui_tests |-> "UI_FILES",
   run_www_tests |-> "WWW_FILES",
   run_kubernetes_tests |-> "KUBERNETES_FILES",
   docs_build |-> "DOC_FILES",
   run_tests |-> "ALL_SOURCE_FILES"]

\* the commit reference is None or the empty str
NoCommitRef == _commit_ref \in {<<>>, <<"">>}

FullTestsEvent == _github_event \in {"push", "schedule"}

FullTestsLabel == \E i \in 1..Len(_pr_labels) : _pr_labels[i] = "full tests needed"

\* no gate is open on an object whose _run_everything was evaluated: it is
\* false, _should_be_run is false for every area, and so is every gate
\* property that was read
NothingRuns ==
  Cached("_run_everything") =>
    /\ ~Value("_run_everything")
    /\ \A area \in FileGroupForCi : ~_should_be_run(self, area).val
    /\ \A name \in DOMAIN AreaOf : Cached(name) => ~Value(name)

\* every gate is open on an object whose _run_everything was evaluated
EverythingRuns ==
  Cached("_run_everything") =>
    /\ Value("_run_everything")
    /\ \A area \in FileGroupForCi : _should_be_run(self, area).val
    /\ \A name \in DOMAIN AreaOf : Cached(name) => Value(name)

\* C1 as stated: with no changed files, a commit reference and an event
\* other than push and schedule, _run_everything is false and
\* _should_be_run is false for every area.
C1_Original ==
  (Len(_files) = 0 /\ ~NoCommitRef /\ ~FullTestsEvent) => NothingRuns

\* C1, amended: with no changed files, a commit reference, an event other
\* than push and schedule and no "full tests needed" label,
\* _run_everything is false and _should_be_run is false for every area.
C1_NothingRunsWithoutFiles ==
  (Len(_files) = 0 /\ ~NoCommitRef /\ ~FullTestsEvent /\ ~FullTestsLabel) => NothingRuns

C1_Witness ==
  /\ Len(_files) = 0 /\ ~NoCommitRef /\ ~FullTestsEvent /\ ~FullTestsLabel
  /\ Cached("run_tests") /\ ~Value("run_tests")
  /\ Cached("_run_everything") /\ ~Value("_run_everything")

\* the version-matrix properties that follow _full_tests_needed, with the
\* supported list and the default of each
FullOrDefault ==
  [python_versions |->
     [full |-> CURRENT_PYTHON_MAJOR_MINOR_VERSIONS, one |-> DEFAULT_PYTHON_MAJOR_MINOR_VERSION],
   postgres_versions |-> [full |-> CURRENT_POSTGRES_VERSIONS, one |-> DEFAULT_POSTGRES_VERSION],
   mysql_versions |-> [full |-> CURRENT_MYSQL_VERSIONS, one |-> DEFAULT_MYSQL_VERSION],
   mssql_versions |-> [full |-> CURRENT_MSSQL_VERSIONS, one |-> DEFAULT_MSSQL_VERSION],
   kubernetes_versions |->
     [full |-> CURRENT_KUBERNETES_VERSIONS, one |-> DEFAULT_KUBERNETES_VERSION]]

\* kind_versions and helm_versions
KindAndHelm ==
  [kind_versions |-> [full |-> CURRENT_KIND_VERSIONS, one |-> DEFAULT_KIND_VERSION],
   helm_versions |-> [full |-> CURRENT_HELM_VERSIONS, one |-> DEFAULT_HELM_VERSION]]

\* a read property of the table is the full list under the condition and
\* the default alone otherwise
FollowsCondition(table, condition) ==
  \A name \in DOMAIN table :
    Cached(name) => Value(name) = IF condition THEN table[name].full ELSE <<table[name].one>>

AllPythonFollows ==
  Cached("all_python_versions") =>
    Value("all_python_versions") =
      IF _run_everything(self).val \/ _full_tests_needed(self).val
      THEN ALL_PYTHON_MAJOR_MINOR_VERSIONS
      ELSE <<DEFAULT_PYTHON_MAJOR_MINOR_VERSION>>

\* C2 as stated: each of python_versions, postgres_versions, mysql_versions,
\* mssql_versions, kubernetes_versions, kind_versions and helm_versions is
\* the full supported list when _full_tests_needed and the default alone
\* otherwise; all_python_versions is the full list also when _run_everything.
C2_Original ==
  /\ FollowsCondition(FullOrDefault, _full_tests_needed(self).val)
  /\ FollowsCondition(KindAndHelm, _full_tests_needed(self).val)
  /\ AllPythonFollows

\* C2, amended: python_versions, postgres_versions, mysql_versions,
\* mssql_versions and kubernetes_versions are the full supported list when
\* _full_tests_needed and the default alone otherwise; kind_versions and
\* helm_versions are the full supported list in every context;
\* all_python_versions is the full list when _run_everything or
\* _full_tests_needed and the default alone otherwise.
C2_VersionMatrices ==
  /\ FollowsCondition(FullOrDefault, _full_tests_needed(self).val)
  /\ FollowsCondition(KindAndHelm, TRUE)
  /\ AllPythonFollows

C2_Witness ==
  /\ ~_full_tests_needed(self).val
  /\ Cached("kind_versions") /\ Value("kind_versions") = CURRENT_KIND_VERSIONS
  /\ Len(CURRENT_KIND_VERSIONS) > 1

\* C3: when the commit reference is None or empty, _run_everything is
\* true, whatever the files, the labels, the event and the branch are.
C3_RunEverythingWithoutCommit ==
  NoCommitRef =>
    /\ _run_everything(self).val
    /\ Cached("_run_everything") => Value("_run_everything")

C3_Witness ==
  /\ _commit_ref = <<"">> /\ ~FullTestsEvent /\ ~FullTestsLabel
  /\ ~SomeFileIn("CI_FILE_GROUP_MATCHES", "ENVIRONMENT_FILES")
  /\ Cached("_run_everything") /\ Value("_run_everything")

\* C4: _full_tests_needed is true exactly when the event is push or
\* schedule or "full tests needed" is among the labels, and python_versions
\* is then the full supported list.
C4_FullTestsNeeded ==
  /\ _full_tests_needed(self).val <=> (FullTestsEvent \/ FullTestsLabel)
  /\ Cached("_full_tests_needed") =>
       (Value("_full_tests_needed") <=> (FullTestsEvent \/ FullTestsLabel))
  /\ (FullTestsEvent \/ FullTestsLabel) =>
       /\ python_versions(self).val = CURRENT_PYTHON_MAJOR_MINOR_VERSIONS
       /\ Cached("python_versions") =>
            Value("python_versions") = CURRENT_PYTHON_MAJOR_MINOR_VERSIONS

C4_Witness ==
  /\ _github_event = "schedule" /\ ~FullTestsLabel /\ NoCommitRef /\ Len(_files) > 0
  /\ Cached("_full_tests_needed") /\ Value("_full_tests_needed")
  /\ Cached("python_versions")
  /\ Value("python_versions") = CURRENT_PYTHON_MAJOR_MINOR_VERSIONS

\* the full test-type catalogue, sorted and space-joined
FullCatalogue == "API Always CLI Core Integration Other Providers WWW"

FullCatalogueWithoutProviders == "API Always CLI Core Integration Other WWW"

\* C5 as stated: when a changed file matches ENVIRONMENT_FILES,
\* _run_everything and every _should_be_run are true and test_types is the
\* full catalogue.
C5_Original ==
  SomeFileIn("CI_FILE_GROUP_MATCHES", "ENVIRONMENT_FILES") =>
    /\ EverythingRuns
    /\ Cached("test_types") => Value("test_types") = FullCatalogue

\* C5, amended: when a changed file matches ENVIRONMENT_FILES,
\* _run_everything and every _should_be_run are true, and test_types is
\* the full catalogue on the default branch main and the full catalogue
\* without Providers on any other default branch.
C5_EnvironmentFilesRunEverything ==
  SomeFileIn("CI_FILE_GROUP_MATCHES", "ENVIRONMENT_FILES") =>
    LET expected == IF _default_branch = "main" THEN FullCatalogue
                    ELSE FullCatalogueWithoutProviders
    IN /\ EverythingRuns
       /\ Cached("test_types") => Value("test_types") = expected

C5_Witness ==
  /\ SomeFileIn("CI_FILE_GROUP_MATCHES", "ENVIRONMENT_FILES")
  /\ ~NoCommitRef /\ ~FullTestsEvent /\ ~FullTestsLabel
  /\ _default_branch # "main"
  /\ Cached("test_types") /\ Value("test_types") = FullCatalogueWithoutProviders


\* the test types of the catalogue that are in the set, sorted and
\* space-joined (the catalogue lists them in sorted order)
Joined(types) == join(SelectSeq(all_selective_test_types, LAMBDA t : t \in types))

\* some changed file is a source file of no test type and not a
\* Kubernetes file
SomeUnattributedFile ==
  \E i \in 1..Len(_files) :
    /\ _files[i] \in Matched[<<"CI_FILE_GROUP_MATCHES", "ALL_SOURCE_FILES">>]
    /\ \A type \in DOMAIN TEST_TYPE_MATCHES : _files[i] \notin Matched[<<"TEST_TYPE_MATCHES", type>>]
    /\ _files[i] \notin Matched[<<"CI_FILE_GROUP_MATCHES", "KUBERNETES_FILES">>]

\* "Always" and the test types some changed file matches
MatchedTestTypes ==
  {"Always"} \cup {SelectiveUnitTestTypes[type] :
                     type \in {t \in DOMAIN TEST_TYPE_MATCHES : SomeFileIn("TEST_TYPE_MATCHES", t)}}

\* the test types selected before Providers is removed
SelectedTestTypes ==
  IF _run_everything(self).val \/ SomeUnattributedFile THEN set(all_selective_test_types)
  ELSE MatchedTestTypes

\* C6: when the default branch is not main, test_types never contains
\* Providers, wherever the list came from, and keeps every other selected
\* test type.
C6_NoProvidersOffMain ==
  (Cached("test_types") /\ _default_branch # "main" /\ run_tests(self).val) =>
    Value("test_types") = Joined(SelectedTestTypes \ {"Providers"})

C6_Witness ==
  /\ _default_branch # "main"
  /\ ~_run_everything(self).val /\ ~SomeUnattributedFile
  /\ SomeFileIn("TEST_TYPE_MATCHES", "PROVIDERS") /\ SomeFileIn("TEST_TYPE_MATCHES", "API")
  /\ Cached("test_types") /\ Value("test_types") = "API Always"

\* C7: when _run_everything is false and run_tests is true, the selected
\* test types are the full catalogue if some changed file matches
\* ALL_SOURCE_FILES, no test-type group and not KUBERNETES_FILES, and
\* otherwise exactly Always and each test-type group some changed file
\* matches.
C7_SelectedTestTypes ==
  (Cached("test_types") /\ ~_run_everything(self).val /\ run_tests(self).val) =>
    LET selected == IF SomeUnattributedFile THEN set(all_selective_test_types)
                    ELSE MatchedTestTypes
        got == _get_test_types_to_run(self).val
    IN /\ set(got) = selected
       /\ Len(got) = Cardinality(selected)
       /\ _default_branch = "main" => Value("test_types") = Joined(selected)

C7_Witness ==
  /\ ~_run_everything(self).val /\ ~SomeUnattributedFile /\ _default_branch = "main"
  /\ SomeFileIn("CI_FILE_GROUP_MATCHES", "KUBERNETES_FILES")
  /\ ~SomeFileIn("TEST_TYPE_MATCHES", "PROVIDERS")
  /\ SomeFileIn("TEST_TYPE_MATCHES", "WWW")
  /\ Cached("test_types") /\ Value("test_types") = "Always WWW"

\* C8: basic_checks_only is the negation of image_build, and image_build is
\* true exactly when run_tests, docs_build or run_kubernetes_tests is.
C8_ImageBuild ==
  Cached("image_build") =>
    /\ Value("image_build") <=>
         (run_tests(self).val \/ docs_build(self).val \/ run_kubernetes_tests(self).val)
    /\ Cached("basic_checks_only") => (Value("basic_checks_only") <=> ~Value("image_build"))
    /\ basic_checks_only(self).val <=> ~Value("image_build")

C8_Witness ==
  /\ Cached("basic_checks_only") /\ ~Value("basic_checks_only")
  /\ Cached("image_build") /\ Value("image_build")
  /\ Cached("run_tests") /\ ~Value("run_tests")
  /\ Cached("docs_build") /\ Value("docs_build")
  /\ ~Cached("run_kubernetes_tests")

\* C9: every read of a property returns what its first read returned, and
\* the files are matched against each group of each table at most once.
C9_Memoized ==
  /\ returned # <<>> => returned[2] = first[returned[1]][1]
  /\ \A key \in MatchKeys : computations[key] <= 1
  /\ \A key \in MatchKeys : (computations[key] = 1) <=> (lru[key] # <<>>)

C9_Witness ==
  /\ reads = 2
  /\ returned[1] = "test_types"
  /\ \A name \in Properties : first[name] # <<>> <=> name = "test_types"
  /\ computations[<<"CI_FILE_GROUP_MATCHES", "ALL_SOURCE_FILES">>] = 1
  /\ computations[<<"TEST_TYPE_MATCHES", "API">>] = 1

\* the sorted, space-joined lists without duplicates that contain Always
ListsWithAlways ==
  {Joined(types) : types \in {t \in SUBSET set(all_selective_test_types) : "Always" \in t}}

\* C10: test_types is the empty string exactly when run_tests is false;
\* when run_tests is true and _run_everything is false it is a sorted,
\* space-joined list without duplicates that contains Always.
C10_TestTypesShape ==
  Cached("test_types") =>
    /\ (Value("test_types") = "") <=> ~run_tests(self).val
    /\ "" \notin ListsWithAlways
    /\ (run_tests(self).val /\ ~_run_everything(self).val) =>
         Value("test_types") \in ListsWithAlways

C10_Witness ==
  /\ ~_run_everything(self).val
  /\ Cached("run_tests") /\ Value("run_tests")
  /\ Cached("test_types") /\ Value("test_types") = "API Always WWW"

=============================================================================
